---- MODULE Spec2Model ----
(***************************************************************************)
(* Model of pkg/controllers/status.go: the ClusterOperator status client   *)
(* of the cluster-cloud-controller-manager-operator.                       *)
(*                                                                         *)
(* Every transition (setStatusDegraded, setStatusProgressing,              *)
(* setStatusAvailable, clearCloudControllerOwnerCondition) is a            *)
(* read-modify-write against one ClusterOperator object kept by the API    *)
(* server: Get (and Create when absent), a local computation on the        *)
(* fetched copy, and one Status().Update.  The callers are modelled as     *)
(* processes that interleave at the store calls.                           *)
(***************************************************************************)
EXTENDS Integers, Sequences, FiniteSets, TLC

(***************************************************************************)
(* Bounds of the model.                                                    *)
(***************************************************************************)
MaxTime == 2
MaxOps == 2

(***************************************************************************)
(* Program constants.                                                      *)
(***************************************************************************)
ReasonAsExpected == "AsExpected"
ReasonInitializing == "Initializing"
ReasonSyncing == "SyncingResources"
ReasonSyncFailed == "SyncingFailed"
ReasonPlatformTechPreview == "PlatformTechPreview"

clusterOperatorName == "cloud-controller-manager"
operatorVersionKey == "operator"
defaultManagementNamespace == "openshift-cloud-controller-manager-operator"
unknownVersionValue == "unknown"

OperatorAvailable == "Available"
OperatorProgressing == "Progressing"
OperatorDegraded == "Degraded"
OperatorUpgradeable == "Upgradeable"
cloudControllerOwnershipCondition == "CloudControllerOwner"

ConditionTrue == "True"
ConditionFalse == "False"
ConditionUnknown == "Unknown"

GroupName == "config.openshift.io"

(* RELEASE_VERSION in the environment of the operator: set, or missing. *)
Environments == {"4.16.0", ""}

(* Fields of the ClusterOperatorStatusClient, fixed at construction. *)
ManagedNamespace == "openshift-cloud-controller-manager"

(* The version an earlier release of the operator left in the record. *)
PreviousVersion == "4.15.0"

(* A nil error value. *)
NoError == "<nil>"

(***************************************************************************)
(* The callers of the status client and the transitions they run.          *)
(***************************************************************************)
Procs == {"reconciler", "controller"}

Kinds == {"Available", "Progressing", "Degraded", "Removal"}

ReconcileErrors == {"connection refused", NoError}

(* Errors of the store other than NotFound, AlreadyExists and Conflict. *)
TransientErrors == {"Timeout"}

VARIABLES
    ReleaseVersion, \* the client's ReleaseVersion, from GetReleaseVersion
    store,          \* the ClusterOperator object kept by the API server
    now,            \* the clock
    pc,             \* each caller's position in its transition
    kind,           \* the transition a caller runs
    ovr,            \* the overrides a caller passed
    rerr,           \* the reconcileErr a caller passed (Degraded)
    notFound,       \* whether the caller's Get reported NotFound
    fetched,        \* the object getOrCreateClusterOperator returned
    conds,          \* the conditions the transition computed
    co,             \* the caller's copy of the object, as handed to Update
    result,         \* what the transition returned
    persists,       \* Status().Update calls issued in this transition
    creates,        \* Create calls issued in this transition
    started,        \* transitions started so far
    lastPersisted   \* the status written by the last successful Update

vars == <<ReleaseVersion, store, now, pc, kind, ovr, rerr, notFound, fetched, conds, co,
          result, persists, creates, started, lastPersisted>>

(***************************************************************************)
(* Data.                                                                   *)
(***************************************************************************)
Condition(type, status, reason, message, ltt) ==
    [type |-> type, status |-> status, reason |-> reason,
     message |-> message, ltt |-> ltt]

OperandVersion(name, version) == [name |-> name, version |-> version]

ObjectReference(group, resource, name) ==
    [group |-> group, resource |-> resource, name |-> name]

EmptyStatus == [conditions |-> <<>>, versions |-> <<>>, relatedObjects |-> <<>>]

NoObject == [rev |-> 0, status |-> EmptyStatus]

NoResult == [status |-> "none", origin |-> "none", raw |-> NoError, err |-> NoError]

Success == [status |-> "ok", origin |-> "none", raw |-> NoError, err |-> NoError]

Panic == [status |-> "panic", origin |-> "none", raw |-> NoError, err |-> NoError]

Failure(origin, raw, err) ==
    [status |-> "error", origin |-> origin, raw |-> raw, err |-> err]

(***************************************************************************)
(* v1helpers (library-go), used by syncStatus and the removal transition.  *)
(***************************************************************************)
RECURSIVE FirstIndex(_, _, _)
FirstIndex(conditions, conditionType, i) ==
    IF i > Len(conditions) THEN 0
    ELSE IF conditions[i].type = conditionType THEN i
    ELSE FirstIndex(conditions, conditionType, i + 1)

(* FindStatusCondition: the index of the first condition of the type, 0 for nil. *)
FindStatusCondition(conditions, conditionType) ==
    FirstIndex(conditions, conditionType, 1)

(* SetStatusCondition: a condition of a new type is appended, stamped with the
   clock; an existing one takes the new status, reason and message, and the
   clock's time only when its status changes. *)
SetStatusCondition(conditions, newCondition, t) ==
    LET i == FindStatusCondition(conditions, newCondition.type)
    IN  IF i = 0
        THEN Append(conditions, [newCondition EXCEPT !.ltt = t])
        ELSE [conditions EXCEPT ![i] =
                 [type |-> @.type,
                  status |-> newCondition.status,
                  reason |-> newCondition.reason,
                  message |-> newCondition.message,
                  ltt |-> IF @.status # newCondition.status THEN t ELSE @.ltt]]

(* RemoveStatusCondition: every condition of the type is dropped. *)
RemoveStatusCondition(conditions, conditionType) ==
    SelectSeq(conditions, LAMBDA c : c.type # conditionType)

(***************************************************************************)
(* status.go: helpers.                                                     *)
(***************************************************************************)
RECURSIVE JoinVersions(_, _)
JoinVersions(versions, i) ==
    IF i > Len(versions) THEN ""
    ELSE (IF i > 1 THEN ", " ELSE "")
         \o versions[i].name \o ": " \o versions[i].version
         \o JoinVersions(versions, i + 1)

printOperandVersions(versions) == JoinVersions(versions, 1)

(* fmt's rendering of an error built by errors.New under the verb %e: the verb
   is not one of v, s, x, X, q, so Error() is not called and the value is
   printed by reflection, the string field with a bad-verb marker. *)
FormatErrorVerbE(e) ==
    IF e = NoError THEN "%!e(<nil>)"
    ELSE "&{%!e(string=" \o e \o ")}"

newClusterOperatorStatusCondition(conditionType, conditionStatus, reason, message, t) ==
    Condition(conditionType, conditionStatus, reason, message, t)

(* GetReleaseVersion: the release version of the environment, "unknown" when
   the variable is missing. *)
GetReleaseVersion(releaseVersion) ==
    IF Len(releaseVersion) = 0 THEN unknownVersionValue ELSE releaseVersion

DesiredVersions == <<OperandVersion(operatorVersionKey, ReleaseVersion)>>

relatedObjects ==
    <<ObjectReference("", "namespaces", defaultManagementNamespace),
      ObjectReference(GroupName, "clusteroperators", clusterOperatorName),
      ObjectReference("", "namespaces", ManagedNamespace)>>

(* The merge loops of syncStatus as they would be if each condition were added
   to the list. *)
SetStatusConditionsAppending(conditions, updates, i, t) ==
    conditions \o [j \in 1..(Len(updates) - i + 1) |->
                      [updates[j + i - 1] EXCEPT !.ltt = t]]

RECURSIVE SetStatusConditions(_, _, _, _)
SetStatusConditions(conditions, updates, i, t) ==
    IF i > Len(updates) THEN conditions
    ELSE SetStatusConditions(SetStatusCondition(conditions, updates[i], t),
                             updates, i + 1, t)

(* syncStatus up to its Update call as it would be if the related objects were
   compared as a set. *)
SyncedStatusUnorderedCompare(status, cs, overrides, t) ==
    LET afterConds == SetStatusConditions(status.conditions, cs, 1, t)
        afterOverrides == SetStatusConditions(afterConds, overrides, 1, t)
        elements(l) == {l[i] : i \in 1..Len(l)}
    IN  [conditions |-> afterOverrides,
         versions |-> status.versions,
         relatedObjects |-> IF elements(status.relatedObjects) # elements(relatedObjects)
                            THEN relatedObjects
                            ELSE status.relatedObjects]

(* syncStatus up to its Update call: the status of the object it hands over. *)
SyncedStatus(status, cs, overrides, t) ==
    LET afterConds == SetStatusConditions(status.conditions, cs, 1, t)
        afterOverrides == SetStatusConditions(afterConds, overrides, 1, t)
    IN  [conditions |-> afterOverrides,
         versions |-> status.versions,
         relatedObjects |-> IF status.relatedObjects # relatedObjects
                            THEN relatedObjects
                            ELSE status.relatedObjects]

(***************************************************************************)
(* The transitions, up to their call of syncStatus.  Each yields what it   *)
(* does next ("sync", "noop" for an early return of nil, "panic"), the     *)
(* status of its copy as it stands before syncStatus, and the conditions   *)
(* and overrides it passes.                                                *)
(***************************************************************************)
Plan(outcome, base, cs, overrides, t) ==
    [outcome |-> outcome, base |-> base, conds |-> cs, overrides |-> overrides,
     time |-> t]

(* setStatusDegraded as it would be if it also took the operator out of
   Available. *)
setStatusDegradedClearsAvailable(status, reconcileErr, overrides, t) ==
    IF reconcileErr = NoError
    THEN Plan("panic", status, <<>>, overrides, t)
    ELSE Plan("sync", status,
              <<newClusterOperatorStatusCondition(OperatorDegraded, ConditionTrue,
                    ReasonSyncFailed,
                    "Failed to resync for " \o printOperandVersions(DesiredVersions)
                    \o " because " \o FormatErrorVerbE(reconcileErr), t),
                newClusterOperatorStatusCondition(OperatorUpgradeable, ConditionFalse,
                                                  ReasonAsExpected, "", t),
                newClusterOperatorStatusCondition(OperatorAvailable, ConditionFalse,
                                                  ReasonSyncFailed, "", t)>>,
              overrides, t)

setStatusDegraded(status, reconcileErr, overrides, t) ==
    LET currentVersions == status.versions
        message ==
            IF DesiredVersions # currentVersions
            THEN "Failed when progressing towards "
                 \o printOperandVersions(DesiredVersions)
                 \o " because " \o FormatErrorVerbE(reconcileErr)
            ELSE "Failed to resync for "
                 \o printOperandVersions(DesiredVersions)
                 \o " because " \o FormatErrorVerbE(reconcileErr)
        cs == <<newClusterOperatorStatusCondition(OperatorDegraded, ConditionTrue,
                                                  ReasonSyncFailed, message, t),
                newClusterOperatorStatusCondition(OperatorUpgradeable, ConditionFalse,
                                                  ReasonAsExpected, "", t)>>
    IN  \* reconcileErr.Error() for the event: a nil error is dereferenced
        IF reconcileErr = NoError
        THEN Plan("panic", status, cs, overrides, t)
        ELSE Plan("sync", status, cs, overrides, t)

(* setStatusProgressing as it would be if it stamped the version like
   setStatusAvailable. *)
setStatusProgressingStampsVersion(status, overrides, t) ==
    Plan("sync", [status EXCEPT !.versions = DesiredVersions],
         <<newClusterOperatorStatusCondition(OperatorProgressing, ConditionTrue,
                                             ReasonAsExpected, "", t),
           newClusterOperatorStatusCondition(OperatorUpgradeable, ConditionTrue,
                                             ReasonAsExpected, "", t)>>,
         overrides, t)

(* setStatusProgressing as it would be if a missing release version counted as
   nothing to progress towards. *)
setStatusProgressingSkipsUnknown(status, overrides, t) ==
    LET differs == /\ DesiredVersions # status.versions
                   /\ ReleaseVersion # unknownVersionValue
    IN  Plan("sync", status,
             <<newClusterOperatorStatusCondition(OperatorProgressing, ConditionTrue,
                   IF differs THEN ReasonSyncing ELSE ReasonAsExpected,
                   IF differs
                   THEN "Progressing towards " \o printOperandVersions(DesiredVersions)
                   ELSE "", t),
               newClusterOperatorStatusCondition(OperatorUpgradeable, ConditionTrue,
                                                 ReasonAsExpected, "", t)>>,
             overrides, t)

setStatusProgressing(status, overrides, t) ==
    LET currentVersions == status.versions
        differs == DesiredVersions # currentVersions
        message == IF differs
                   THEN "Progressing towards " \o printOperandVersions(DesiredVersions)
                   ELSE ""
        reason == IF differs THEN ReasonSyncing ELSE ReasonAsExpected
        cs == <<newClusterOperatorStatusCondition(OperatorProgressing, ConditionTrue,
                                                  reason, message, t),
                newClusterOperatorStatusCondition(OperatorUpgradeable, ConditionTrue,
                                                  ReasonAsExpected, "", t)>>
    IN  Plan("sync", status, cs, overrides, t)

(* setStatusAvailable as it would be if it left Degraded to the caller. *)
setStatusAvailableKeepsDegraded(status, overrides, t) ==
    Plan("sync", [status EXCEPT !.versions = DesiredVersions],
         <<newClusterOperatorStatusCondition(OperatorAvailable, ConditionTrue,
               ReasonAsExpected,
               "Cluster Cloud Controller Manager Operator is available at "
               \o ReleaseVersion, t),
           newClusterOperatorStatusCondition(OperatorProgressing, ConditionFalse,
                                             ReasonAsExpected, "", t),
           newClusterOperatorStatusCondition(OperatorUpgradeable, ConditionTrue,
                                             ReasonAsExpected, "", t)>>,
         overrides, t)

setStatusAvailable(status, overrides, t) ==
    LET cs == <<newClusterOperatorStatusCondition(OperatorAvailable, ConditionTrue,
                    ReasonAsExpected,
                    "Cluster Cloud Controller Manager Operator is available at "
                    \o ReleaseVersion, t),
                newClusterOperatorStatusCondition(OperatorProgressing, ConditionFalse,
                                                  ReasonAsExpected, "", t),
                newClusterOperatorStatusCondition(OperatorDegraded, ConditionFalse,
                                                  ReasonAsExpected, "", t),
                newClusterOperatorStatusCondition(OperatorUpgradeable, ConditionTrue,
                                                  ReasonAsExpected, "", t)>>
    IN  Plan("sync", [status EXCEPT !.versions = DesiredVersions], cs, overrides, t)

(* clearCloudControllerOwnerCondition as it would be without its early returns. *)
clearCloudControllerOwnerConditionAlways(status, t) ==
    Plan("sync",
         [status EXCEPT
             !.conditions = RemoveStatusCondition(@, cloudControllerOwnershipCondition),
             !.versions = DesiredVersions],
         <<>>, <<>>, t)

(* clearCloudControllerOwnerCondition as it would be if it cleared the whole
   condition list once it found the condition. *)
clearCloudControllerOwnerConditionClearsAll(status, t) ==
    IF FindStatusCondition(status.conditions, cloudControllerOwnershipCondition) = 0
    THEN Plan("noop", status, <<>>, <<>>, t)
    ELSE Plan("sync",
              [status EXCEPT !.conditions = <<>>, !.versions = DesiredVersions],
              <<>>, <<>>, t)

clearCloudControllerOwnerCondition(status, t) ==
    IF status.conditions = <<>>
    THEN Plan("noop", status, <<>>, <<>>, t)
    ELSE IF FindStatusCondition(status.conditions, cloudControllerOwnershipCondition) = 0
    THEN Plan("noop", status, <<>>, <<>>, t)
    ELSE Plan("sync",
              [status EXCEPT
                  !.conditions = RemoveStatusCondition(@, cloudControllerOwnershipCondition),
                  !.versions = DesiredVersions],
              <<>>, <<>>, t)

Transition(k, status, reconcileErr, overrides, t) ==
    CASE k = "Degraded" -> setStatusDegraded(status, reconcileErr, overrides, t)
      [] k = "Progressing" -> setStatusProgressing(status, overrides, t)
      [] k = "Available" -> setStatusAvailable(status, overrides, t)
      [] k = "Removal" -> clearCloudControllerOwnerCondition(status, t)

(***************************************************************************)
(* The store: the API server's Get, Create and Status().Update on the one  *)
(* ClusterOperator object.  Update is conditional on the resourceVersion   *)
(* the caller's copy carries.                                              *)
(***************************************************************************)
StoreGet(s) ==
    IF s.exists
    THEN [err |-> NoError, obj |-> [rev |-> s.rev, status |-> s.status]]
    ELSE [err |-> "NotFound", obj |-> NoObject]

StoreCreate(s) ==
    IF s.exists
    THEN [err |-> "AlreadyExists", store |-> s, obj |-> NoObject]
    ELSE [err |-> NoError,
          store |-> [exists |-> TRUE, rev |-> s.rev + 1, status |-> EmptyStatus],
          obj |-> [rev |-> s.rev + 1, status |-> EmptyStatus]]

StoreUpdate(s, obj) ==
    IF s.exists /\ obj.rev = s.rev
    THEN [err |-> NoError,
          store |-> [exists |-> TRUE, rev |-> s.rev + 1, status |-> obj.status]]
    ELSE [err |-> "Conflict", store |-> s]

(***************************************************************************)
(* Inputs.                                                                 *)
(***************************************************************************)
OverrideLists ==
    {<<>>,
     <<Condition(OperatorAvailable, ConditionUnknown, ReasonInitializing, "starting", 0),
       Condition(OperatorAvailable, ConditionFalse, ReasonInitializing, "starting", 0)>>,
     <<Condition(OperatorUpgradeable, ConditionFalse, ReasonPlatformTechPreview,
                 "tech preview", 0),
       Condition(cloudControllerOwnershipCondition, ConditionTrue,
                 ReasonAsExpected, "", 0)>>}

(* The calls a caller makes: the transition with its arguments.  The removal
   transition takes no overrides; only setStatusDegraded takes an error, which
   may be nil. *)
Calls ==
    [kind : {"Available", "Progressing"}, overrides : OverrideLists,
     reconcileErr : {NoError}]
    \cup [kind : {"Degraded"}, overrides : OverrideLists,
          reconcileErr : ReconcileErrors \ {NoError}]
    \cup [kind : {"Degraded"}, overrides : {<<>>}, reconcileErr : {NoError}]
    \cup [kind : {"Removal"}, overrides : {<<>>}, reconcileErr : {NoError}]

(* The record an earlier release left behind. *)
LegacyStatus ==
    [conditions |->
        <<Condition(OperatorAvailable, ConditionTrue, ReasonAsExpected,
                    "Cluster Cloud Controller Manager Operator is available at "
                    \o PreviousVersion, 0),
          Condition(cloudControllerOwnershipCondition, ConditionTrue,
                    ReasonAsExpected, "", 0)>>,
     versions |-> <<OperandVersion(operatorVersionKey, PreviousVersion)>>,
     relatedObjects |->
        <<ObjectReference(GroupName, "clusteroperators", clusterOperatorName),
          ObjectReference("", "namespaces", defaultManagementNamespace),
          ObjectReference("", "namespaces", ManagedNamespace)>>]

InitialStores ==
    {[exists |-> FALSE, rev |-> 0, status |-> EmptyStatus],
     [exists |-> TRUE, rev |-> 1, status |-> LegacyStatus]}

(***************************************************************************)
(* The state machine.                                                      *)
(***************************************************************************)
Init ==
    /\ \E env \in Environments, s \in InitialStores :
          \* without RELEASE_VERSION the operator starts against the record
          \* an earlier release left; with no record the version is a label
          /\ (Len(env) = 0 => s.exists)
          /\ ReleaseVersion = GetReleaseVersion(env)
          /\ store = s
    /\ now = 0
    /\ pc = [p \in Procs |-> "idle"]
    /\ kind = [p \in Procs |-> "Available"]
    /\ ovr = [p \in Procs |-> <<>>]
    /\ rerr = [p \in Procs |-> NoError]
    /\ notFound = [p \in Procs |-> FALSE]
    /\ fetched = [p \in Procs |-> NoObject]
    /\ conds = [p \in Procs |-> <<>>]
    /\ co = [p \in Procs |-> NoObject]
    /\ result = [p \in Procs |-> NoResult]
    /\ persists = [p \in Procs |-> 0]
    /\ creates = [p \in Procs |-> 0]
    /\ started = 0
    /\ lastPersisted = store.status

(* A caller invokes one of the four transitions; the locals of its previous
   call are gone. *)
Start(p) ==
    /\ pc[p] \in {"idle", "done"}
    /\ started < MaxOps
    /\ \E c \in Calls :
          /\ kind' = [kind EXCEPT ![p] = c.kind]
          /\ ovr' = [ovr EXCEPT ![p] = c.overrides]
          /\ rerr' = [rerr EXCEPT ![p] = c.reconcileErr]
    /\ pc' = [pc EXCEPT ![p] = "get"]
    /\ started' = started + 1
    /\ notFound' = [notFound EXCEPT ![p] = FALSE]
    /\ result' = [result EXCEPT ![p] = NoResult]
    /\ persists' = [persists EXCEPT ![p] = 0]
    /\ creates' = [creates EXCEPT ![p] = 0]
    /\ UNCHANGED <<ReleaseVersion, store, now, fetched, conds, co, lastPersisted>>

(* The transition returns r; its locals are gone. *)
Finish(p, r) ==
    /\ pc' = [pc EXCEPT ![p] = "done"]
    /\ result' = [result EXCEPT ![p] = r]
    /\ ovr' = [ovr EXCEPT ![p] = <<>>]
    /\ rerr' = [rerr EXCEPT ![p] = NoError]
    /\ fetched' = [fetched EXCEPT ![p] = NoObject]
    /\ conds' = [conds EXCEPT ![p] = <<>>]
    /\ co' = [co EXCEPT ![p] = NoObject]

(* syncStatus as it would be with the write skipped for an unchanged record. *)
syncStatusSkipUnchanged(p, obj, plan) ==
    LET synced == SyncedStatus(plan.base, plan.conds, plan.overrides, plan.time)
    IN  IF synced = obj.status
        THEN Finish(p, Success)
        ELSE /\ fetched' = [fetched EXCEPT ![p] = obj]
             /\ conds' = [conds EXCEPT ![p] = plan.conds]
             /\ co' = [co EXCEPT ![p] = [rev |-> obj.rev, status |-> synced]]
             /\ pc' = [pc EXCEPT ![p] = "update"]
             /\ UNCHANGED <<result, ovr, rerr>>

(* syncStatus as it would be with the overrides merged before the conditions. *)
syncStatusOverridesFirst(p, obj, plan) ==
    /\ fetched' = [fetched EXCEPT ![p] = obj]
    /\ conds' = [conds EXCEPT ![p] = plan.conds]
    /\ co' = [co EXCEPT ![p] =
                 [rev |-> obj.rev,
                  status |-> SyncedStatus(plan.base, plan.overrides, plan.conds,
                                          plan.time)]]
    /\ pc' = [pc EXCEPT ![p] = "update"]
    /\ UNCHANGED <<result, ovr, rerr>>

(* syncStatus as it would be if an override taking the operator out of
   Available also took back the versions the transition had set. *)
syncStatusOverridesRevertVersions(p, obj, plan) ==
    LET synced == SyncedStatus(plan.base, plan.conds, plan.overrides, plan.time)
        reverts == \E i \in 1..Len(plan.overrides) :
                       /\ plan.overrides[i].type = OperatorAvailable
                       /\ plan.overrides[i].status # ConditionTrue
    IN  /\ fetched' = [fetched EXCEPT ![p] = obj]
        /\ conds' = [conds EXCEPT ![p] = plan.conds]
        /\ co' = [co EXCEPT ![p] =
                     [rev |-> obj.rev,
                      status |-> IF reverts
                                 THEN [synced EXCEPT !.versions = obj.status.versions]
                                 ELSE synced]]
        /\ pc' = [pc EXCEPT ![p] = "update"]
        /\ UNCHANGED <<result, ovr, rerr>>

(* syncStatus: the conditions and the overrides are merged into the caller's
   copy, the related objects are set, and the copy goes to Status().Update. *)
syncStatus(p, obj, plan) ==
    /\ fetched' = [fetched EXCEPT ![p] = obj]
    /\ conds' = [conds EXCEPT ![p] = plan.conds]
    /\ co' = [co EXCEPT ![p] =
                 [rev |-> obj.rev,
                  status |-> SyncedStatus(plan.base, plan.conds, plan.overrides,
                                          plan.time)]]
    /\ pc' = [pc EXCEPT ![p] = "update"]
    /\ UNCHANGED <<result, ovr, rerr>>

(* The transition's own code, from the object getOrCreateClusterOperator
   returned to the call of Status().Update or an early return.  The clock it
   reads has not gone back since it was last read. *)
Proceed(p, obj) ==
    \E t \in now..MaxTime :
        LET plan == Transition(kind[p], obj.status, rerr[p], ovr[p], t)
        IN  /\ now' = t
            /\ IF plan.outcome = "sync"
               THEN syncStatus(p, obj, plan)
               ELSE Finish(p, IF plan.outcome = "noop" THEN Success ELSE Panic)

(* getOrCreateClusterOperator as it would be if NotFound were returned like any
   other error of Get. *)
GetStepNotFoundFails(p) ==
    /\ pc[p] = "get"
    /\ \/ \E e \in TransientErrors :
            /\ Finish(p, Failure("get", e,
                    "failed to get clusterOperator \"" \o clusterOperatorName
                    \o "\": " \o e))
            /\ UNCHANGED <<notFound, now>>
       \/ /\ StoreGet(store).err = "NotFound"
          /\ notFound' = [notFound EXCEPT ![p] = TRUE]
          /\ Finish(p, Failure("get", "NotFound",
                    "failed to get clusterOperator \"" \o clusterOperatorName
                    \o "\": NotFound"))
          /\ UNCHANGED now
       \/ /\ StoreGet(store).err = NoError
          /\ Proceed(p, StoreGet(store).obj)
          /\ UNCHANGED notFound
    /\ UNCHANGED <<ReleaseVersion, store, kind, persists, creates, started,
                   lastPersisted>>

(* getOrCreateClusterOperator: r.Get and what follows it. *)
GetStep(p) ==
    /\ pc[p] = "get"
    /\ \/ \E e \in TransientErrors :
            /\ Finish(p, Failure("get", e,
                    "failed to get clusterOperator \"" \o clusterOperatorName
                    \o "\": " \o e))
            /\ UNCHANGED <<notFound, now>>
       \/ /\ StoreGet(store).err = "NotFound"
          /\ notFound' = [notFound EXCEPT ![p] = TRUE]
          /\ pc' = [pc EXCEPT ![p] = "create"]
          /\ UNCHANGED <<fetched, conds, co, result, ovr, rerr, now>>
       \/ /\ StoreGet(store).err = NoError
          /\ Proceed(p, StoreGet(store).obj)
          /\ UNCHANGED notFound
    /\ UNCHANGED <<ReleaseVersion, store, kind, persists, creates, started,
                   lastPersisted>>

(* getOrCreateClusterOperator: r.Create after a NotFound, and what follows it. *)
CreateStep(p) ==
    /\ pc[p] = "create"
    /\ creates' = [creates EXCEPT ![p] = @ + 1]
    /\ \/ \E e \in TransientErrors :
            /\ Finish(p, Failure("create", e,
                    "failed to create cluster operator: " \o e))
            /\ UNCHANGED <<store, now>>
       \/ LET r == StoreCreate(store)
          IN  /\ store' = r.store
              /\ IF r.err = NoError
                 THEN Proceed(p, r.obj)
                 ELSE /\ Finish(p, Failure("create", r.err,
                            "failed to create cluster operator: " \o r.err))
                      /\ UNCHANGED now
    /\ UNCHANGED <<ReleaseVersion, kind, notFound, persists, started, lastPersisted>>

(* The write as it would be if the versions and the conditions went to the
   store in two calls: the second may fail after the first took effect. *)
UpdateStepTwoWrites(p) ==
    /\ pc[p] = "update"
    /\ persists' = [persists EXCEPT ![p] = @ + 1]
    /\ \/ \E e \in TransientErrors :
            LET first == StoreUpdate(store,
                             [rev |-> co[p].rev,
                              status |-> [store.status EXCEPT
                                             !.versions = co[p].status.versions]])
            IN  /\ store' = first.store
                /\ Finish(p, Failure("update", e, e))
                /\ UNCHANGED lastPersisted
       \/ LET r == StoreUpdate(store, co[p])
          IN  /\ store' = r.store
              /\ lastPersisted' = IF r.err = NoError THEN co[p].status
                                  ELSE lastPersisted
              /\ Finish(p, IF r.err = NoError THEN Success
                           ELSE Failure("update", r.err, r.err))
    /\ UNCHANGED <<ReleaseVersion, now, kind, notFound, creates, started>>

(* The write as it would be if a conflict were retried with the caller's copy
   moved to the stored revision. *)
UpdateStepRetryOnConflict(p) ==
    /\ pc[p] = "update"
    /\ persists' = [persists EXCEPT ![p] = @ + 1]
    /\ \/ \E e \in TransientErrors :
            /\ Finish(p, Failure("update", e, e))
            /\ UNCHANGED <<store, lastPersisted>>
       \/ LET r == StoreUpdate(store, [co[p] EXCEPT !.rev = store.rev])
          IN  /\ store' = r.store
              /\ lastPersisted' = IF r.err = NoError THEN co[p].status
                                  ELSE lastPersisted
              /\ Finish(p, IF r.err = NoError THEN Success
                           ELSE Failure("update", r.err, r.err))
    /\ UNCHANGED <<ReleaseVersion, now, kind, notFound, creates, started>>

(* The write as it would be if its error were wrapped like those of Get and
   Create. *)
UpdateStepWrapsError(p) ==
    /\ pc[p] = "update"
    /\ persists' = [persists EXCEPT ![p] = @ + 1]
    /\ \/ \E e \in TransientErrors :
            /\ Finish(p, Failure("update", e,
                    "failed to update cluster operator: " \o e))
            /\ UNCHANGED <<store, lastPersisted>>
       \/ LET r == StoreUpdate(store, co[p])
          IN  /\ store' = r.store
              /\ lastPersisted' = IF r.err = NoError THEN co[p].status
                                  ELSE lastPersisted
              /\ Finish(p, IF r.err = NoError THEN Success
                           ELSE Failure("update", r.err,
                                    "failed to update cluster operator: " \o r.err))
    /\ UNCHANGED <<ReleaseVersion, now, kind, notFound, creates, started>>

(* syncStatus: return r.Status().Update(ctx, co). *)
UpdateStep(p) ==
    /\ pc[p] = "update"
    /\ persists' = [persists EXCEPT ![p] = @ + 1]
    /\ \/ \E e \in TransientErrors :
            /\ Finish(p, Failure("update", e, e))
            /\ UNCHANGED <<store, lastPersisted>>
       \/ LET r == StoreUpdate(store, co[p])
          IN  /\ store' = r.store
              /\ lastPersisted' = IF r.err = NoError THEN co[p].status
                                  ELSE lastPersisted
              /\ Finish(p, IF r.err = NoError THEN Success
                           ELSE Failure("update", r.err, r.err))
    /\ UNCHANGED <<ReleaseVersion, now, kind, notFound, creates, started>>

Next ==
    \/ \E p \in Procs : Start(p)
    \/ \E p \in Procs : GetStep(p)
    \/ \E p \in Procs : CreateStep(p)
    \/ \E p \in Procs : UpdateStep(p)

Spec == Init /\ [][Next]_vars

(***************************************************************************)
(* Properties.                                                             *)
(***************************************************************************)
StoredStatus == store.status

Target == cloudControllerOwnershipCondition

(* The override of list o that takes effect for its type: the last one. *)
LastOfType(o, i) == \A j \in (i + 1)..Len(o) : o[j].type # o[i].type

(* The conditions of a call made again at time t: built anew, stamped t. *)
Restamp(cs, t) == [i \in 1..Len(cs) |-> [cs[i] EXCEPT !.ltt = t]]

(* The step in which caller p leaves getOrCreateClusterOperator with an object. *)
Obtains(p) ==
    /\ pc[p] \in {"get", "create"}
    /\ pc'[p] \in {"update", "done"}
    /\ result'[p].status # "error"

C2_SyncIdempotent ==
    \A p \in Procs :
        pc[p] = "update" =>
            \A t \in now..MaxTime :
                SyncedStatus(co[p].status, Restamp(conds[p], t), ovr[p], t)
                    = co[p].status

(* C3: a condition whose status in the record a sync persists equals its status
   in the record the sync fetched keeps its lastTransitionTime. *)
C3_TransitionTimeStable ==
    \A p \in Procs :
        (pc[p] = "update" /\ StoreUpdate(store, co[p]).err = NoError) =>
            \A i \in 1..Len(fetched[p].status.conditions) :
            \A j \in 1..Len(co[p].status.conditions) :
                LET old == fetched[p].status.conditions[i]
                    new == co[p].status.conditions[j]
                IN  (old.type = new.type /\ old.status = new.status)
                        => old.ltt = new.ltt

(* C4: in the record a transition hands to the persist call, every type the
   overrides set carries the status, reason and message of the override (of the
   last one for that type), whether or not the transition's own conditions set
   that type. *)
C4_OverridePrecedence ==
    \A p \in Procs :
        pc[p] = "update" =>
            \A i \in 1..Len(ovr[p]) :
                LastOfType(ovr[p], i) =>
                    LET k == FindStatusCondition(co[p].status.conditions, ovr[p][i].type)
                    IN  /\ k # 0
                        /\ co[p].status.conditions[k].status = ovr[p][i].status
                        /\ co[p].status.conditions[k].reason = ovr[p][i].reason
                        /\ co[p].status.conditions[k].message = ovr[p][i].message

(* C4 witness: the transition set a type to one status, an override set it to
   another, and the record to persist carries the override's. *)
C4_Witness ==
    \E p \in Procs :
        /\ pc[p] = "update"
        /\ \E i \in 1..Len(ovr[p]) : \E j \in 1..Len(conds[p]) :
              /\ LastOfType(ovr[p], i)
              /\ conds[p][j].type = ovr[p][i].type
              /\ conds[p][j].status # ovr[p][i].status
              /\ LET k == FindStatusCondition(co[p].status.conditions, ovr[p][i].type)
                 IN  /\ k # 0
                     /\ co[p].status.conditions[k].status = ovr[p][i].status
        /\ \E i \in 1..Len(ovr[p]) :
              \A j \in 1..Len(conds[p]) : conds[p][j].type # ovr[p][i].type

(* C5: the stored versions change only in the successful persist of an Available
   transition or of a removal that removed the condition, and every such persist
   leaves them exactly <<operator: ReleaseVersion>>. *)
C5_VersionsAdvance ==
    [][/\ StoredStatus'.versions # StoredStatus.versions =>
             \E p \in Procs :
                 /\ pc[p] = "update" /\ pc'[p] = "done"
                 /\ result'[p].status = "ok"
                 /\ kind[p] \in {"Available", "Removal"}
       /\ \A p \in Procs :
             (/\ pc[p] = "update" /\ pc'[p] = "done"
              /\ result'[p].status = "ok"
              /\ kind[p] \in {"Available", "Removal"})
                 => StoredStatus'.versions = DesiredVersions
       /\ \A p \in Procs :
             (pc[p] # pc'[p] /\ kind'[p] \in {"Degraded", "Progressing"})
                 => StoredStatus'.versions = StoredStatus.versions
      ]_vars

(* C5 witness: an Available transition persisted, and the store holds the
   release version in place of the earlier one. *)
C5_Witness ==
    \E p \in Procs :
        /\ pc[p] = "done"
        /\ kind[p] = "Available"
        /\ result[p].status = "ok"
        /\ persists[p] = 1
        /\ StoredStatus.versions = DesiredVersions
        /\ FindStatusCondition(StoredStatus.conditions, Target) # 0

(* C6, as stated: a removal that finds nothing to remove issues no write of any
   kind to the store. *)
C6_RemovalNoopNoWrite ==
    \A p \in Procs :
        (pc[p] = "done" /\ kind[p] = "Removal" /\ result[p].status = "ok"
            /\ persists[p] = 0)
            => creates[p] = 0

(* C6, amended: a removal whose record has no conditions or lacks the target type
   returns success, leaves the stored conditions, versions and relatedObjects
   unchanged and issues no status update; the one write it can issue is the
   Create of the empty record when its Get reported the record absent. *)
C6_RemovalNoopNoUpdate ==
    [][\A p \in Procs :
          (/\ Obtains(p)
           /\ kind[p] = "Removal"
           /\ FindStatusCondition(StoredStatus'.conditions, Target) = 0)
              => /\ pc'[p] = "done"
                 /\ result'[p] = Success
                 /\ persists'[p] = 0
                 /\ StoredStatus' = StoredStatus
                 /\ creates'[p] = (IF notFound[p] THEN 1 ELSE 0)
      ]_vars

(* C6 witness: a removal returned success on a record it had to create. *)
C6_Witness ==
    \E p \in Procs :
        /\ pc[p] = "done"
        /\ kind[p] = "Removal"
        /\ result[p].status = "ok"
        /\ persists[p] = 0
        /\ creates[p] = 1
        /\ StoredStatus = EmptyStatus

(* C7: the stored status is at all times the one written by the last successful
   persist, so a transition that returned an error left nothing of its
   in-memory changes in the store; a failed fetch issued no persist call. *)
C7_StoreUnchangedOnFailure ==
    /\ StoredStatus = lastPersisted
    /\ \A p \in Procs :
          (pc[p] = "done" /\ result[p].origin \in {"get", "create"})
              => persists[p] = 0

(* C7 witness: a transition's persist failed while the store holds the status
   another transition persisted. *)
C7_Witness ==
    \E p \in Procs :
        /\ pc[p] = "done"
        /\ result[p].status = "error"
        /\ result[p].origin = "update"
        /\ kind[p] = "Available"
        /\ StoredStatus.versions # DesiredVersions
        /\ StoredStatus.conditions # <<>>

(* C8: the store changes only by the creation of the empty record or by the
   persist of one transition whose fetched record is the stored one, and then to
   exactly what that transition computed from it; a persist on a stale revision
   is returned as an error, once, and leaves the store as it is. *)
C8_NoLostUpdate ==
    [][/\ store' # store =>
             \/ /\ ~store.exists
                /\ store'.exists
                /\ StoredStatus' = EmptyStatus
                /\ \E p \in Procs : pc[p] = "create" /\ creates'[p] = 1
             \/ \E p \in Procs :
                   /\ pc[p] = "update"
                   /\ fetched[p] = [rev |-> store.rev, status |-> store.status]
                   /\ StoredStatus' = co[p].status
                   /\ \E t \in 0..now :
                         LET plan == Transition(kind[p], store.status, rerr[p],
                                                ovr[p], t)
                         IN  co[p].status = SyncedStatus(plan.base, plan.conds,
                                                         plan.overrides, t)
       /\ \A p \in Procs :
             (pc[p] = "update" /\ pc'[p] = "done" /\ co[p].rev # store.rev)
                 => /\ result'[p].status = "error"
                    /\ store' = store
                    /\ persists'[p] = 1
      ]_vars

(* C8 witness: of two racing transitions one persisted and the other was
   rejected for its stale revision. *)
C8_Witness ==
    \E p \in Procs : \E q \in Procs \ {p} :
        /\ pc[p] = "done" /\ result[p].raw = "Conflict" /\ persists[p] = 1
        /\ pc[q] = "done" /\ result[q].status = "ok" /\ persists[q] = 1

(* C9: of two callers whose Get found the record absent, neither is returned an
   error for losing the race of the Create calls. *)
C9_CreateRaceNoError ==
    \A p \in Procs :
        (notFound[p] /\ pc[p] = "done" /\ store.exists)
            => result[p].raw # "AlreadyExists"

(* C10: a transition whose Get reported not-found issues one Create, goes on
   with the empty record, is never returned the not-found error, and returns
   success once its persist call succeeded. *)
C10_NotFoundCreates ==
    \A p \in Procs :
        notFound[p] =>
            /\ result[p].raw # "NotFound"
            /\ pc[p] \in {"create", "update", "done"}
            /\ pc[p] = "update" =>
                  /\ creates[p] = 1
                  /\ fetched[p].status = EmptyStatus
            /\ pc[p] = "done" =>
                  /\ creates[p] = 1
                  /\ result[p].status = "error" =>
                        result[p].origin \in {"create", "update"}
                  /\ (result[p].status = "ok" /\ kind[p] # "Removal") =>
                        persists[p] = 1

(* C10 witness: a transition that found the record absent returned success
   after persisting conditions. *)
C10_Witness ==
    \E p \in Procs :
        /\ notFound[p]
        /\ pc[p] = "done"
        /\ result[p].status = "ok"
        /\ creates[p] = 1
        /\ persists[p] = 1
        /\ StoredStatus.conditions # <<>>

(* Condition type ty stands in list cs with the given status and reason. *)
Holds(cs, ty, status, reason) ==
    /\ FindStatusCondition(cs, ty) # 0
    /\ cs[FindStatusCondition(cs, ty)].status = status
    /\ cs[FindStatusCondition(cs, ty)].reason = reason

(* The conditions of old outside the types in named stand unchanged, field by
   field and in place, in new, and new has nothing else outside named. *)
FrameOutside(named, old, new) ==
    /\ \A i \in 1..Len(old) :
          old[i].type \notin named => (i <= Len(new) /\ new[i] = old[i])
    /\ \A j \in 1..Len(new) :
          new[j].type \notin named => (j <= Len(old) /\ old[j] = new[j])

(* C11: with an empty override list the Degraded transition hands over a record
   in which every condition other than Degraded and Upgradeable is the fetched
   one in every field, and the Progressing transition one in which every
   condition other than Progressing and Upgradeable is. *)
C11_FrameOfDegradedAndProgressing ==
    \A p \in Procs :
        (pc[p] = "update" /\ ovr[p] = <<>>) =>
            /\ kind[p] = "Degraded" =>
                  FrameOutside({"Degraded", "Upgradeable"},
                               fetched[p].status.conditions,
                               co[p].status.conditions)
            /\ kind[p] = "Progressing" =>
                  FrameOutside({"Progressing", "Upgradeable"},
                               fetched[p].status.conditions,
                               co[p].status.conditions)

(* C11 witness: a Degraded transition without overrides, on a record that has
   Available and Progressing conditions, is about to persist Degraded=True. *)
C11_Witness ==
    \E p \in Procs :
        /\ pc[p] = "update"
        /\ kind[p] = "Degraded"
        /\ ovr[p] = <<>>
        /\ FindStatusCondition(fetched[p].status.conditions, "Available") # 0
        /\ FindStatusCondition(fetched[p].status.conditions, "Progressing") # 0
        /\ ~Holds(fetched[p].status.conditions, "Degraded", "True", "SyncingFailed")
        /\ Holds(co[p].status.conditions, "Degraded", "True", "SyncingFailed")

(* C12: the Progressing transition hands over Progressing=True, with reason
   SyncingResources and the message "Progressing towards operator: <release
   version>" when the fetched versions are not [{operator, release version}],
   with reason AsExpected and no message when they are, and Upgradeable=True
   with reason AsExpected unless an override names Upgradeable; the release
   version "unknown" makes no difference. *)
C12_ProgressingPolicy ==
    \A p \in Procs :
        (pc[p] = "update" /\ kind[p] = "Progressing") =>
            LET cs == co[p].status.conditions
                differs == fetched[p].status.versions
                               # <<[name |-> "operator", version |-> ReleaseVersion]>>
            IN  /\ Holds(cs, "Progressing", "True",
                         IF differs THEN "SyncingResources" ELSE "AsExpected")
                /\ cs[FindStatusCondition(cs, "Progressing")].message =
                       (IF differs
                        THEN "Progressing towards operator: " \o ReleaseVersion
                        ELSE "")
                /\ (\A i \in 1..Len(ovr[p]) : ovr[p][i].type # "Upgradeable") =>
                       Holds(cs, "Upgradeable", "True", "AsExpected")

(* C12 witness: an operator without a release version progresses from the
   record of an earlier release. *)
C12_Witness ==
    \E p \in Procs :
        /\ pc[p] = "update"
        /\ kind[p] = "Progressing"
        /\ ReleaseVersion = "unknown"
        /\ fetched[p].status.versions # <<>>
        /\ \E i \in 1..Len(co[p].status.conditions) :
              /\ co[p].status.conditions[i].type = "Progressing"
              /\ co[p].status.conditions[i].message
                     = "Progressing towards operator: unknown"

(* C13, as stated: the message of the Degraded condition ends in the plain text
   of the reconcile error, after "Failed to resync for operator: <release
   version> because " when the fetched versions are [{operator, release
   version}] and after the progressing variant when they are not. *)
C13_DegradedMessagePlainError ==
    \A p \in Procs :
        (pc[p] = "update" /\ kind[p] = "Degraded") =>
            LET cs == co[p].status.conditions
                matches == fetched[p].status.versions
                               = <<[name |-> "operator", version |-> ReleaseVersion]>>
            IN  /\ Holds(cs, "Degraded", "True", "SyncingFailed")
                /\ cs[FindStatusCondition(cs, "Degraded")].message =
                       (IF matches
                        THEN "Failed to resync for operator: "
                        ELSE "Failed when progressing towards operator: ")
                       \o ReleaseVersion \o " because " \o rerr[p]

(* C14: an Available transition without overrides persists, on success,
   Available=True, Progressing=False, Degraded=False and Upgradeable=True, all
   with reason AsExpected, and the versions [{operator, release version}],
   whatever the record held. *)
C14_AvailableResets ==
    [][\A p \in Procs :
          (/\ pc[p] = "update" /\ kind[p] = "Available" /\ ovr[p] = <<>>
           /\ pc'[p] = "done" /\ result'[p].status = "ok") =>
              /\ Holds(store'.status.conditions, "Available", "True", "AsExpected")
              /\ Holds(store'.status.conditions, "Progressing", "False", "AsExpected")
              /\ Holds(store'.status.conditions, "Degraded", "False", "AsExpected")
              /\ Holds(store'.status.conditions, "Upgradeable", "True", "AsExpected")
              /\ store'.status.versions
                     = <<[name |-> "operator", version |-> ReleaseVersion]>>]_vars

(* C14 witness: the record a Degraded transition left, Degraded=True and
   Upgradeable=False, has been reset by an Available transition. *)
C14_Witness ==
    \E p \in Procs, q \in Procs :
        /\ kind[q] = "Degraded"
        /\ pc[q] = "done"
        /\ result[q].status = "ok"
        /\ persists[q] = 1
        /\ kind[p] = "Available"
        /\ pc[p] = "done"
        /\ result[p].status = "ok"
        /\ persists[p] = 1
        /\ Holds(StoredStatus.conditions, "Degraded", "False", "AsExpected")
        /\ Holds(StoredStatus.conditions, "Upgradeable", "True", "AsExpected")
        /\ Holds(StoredStatus.conditions, "Available", "True", "AsExpected")

(* The related objects as the specification lists them. *)
CanonicalRelatedObjects ==
    <<[group |-> "", resource |-> "namespaces",
       name |-> "openshift-cloud-controller-manager-operator"],
      [group |-> "config.openshift.io", resource |-> "clusteroperators",
       name |-> "cloud-controller-manager"],
      [group |-> "", resource |-> "namespaces", name |-> ManagedNamespace]>>

(* C15: the record a transition hands to the persist step carries exactly the
   three related objects, in order, whatever list was fetched, and carries the
   fetched list itself when that was already the three in order. *)
C15_RelatedObjectsCanonical ==
    \A p \in Procs :
        pc[p] = "update" =>
            /\ co[p].status.relatedObjects = CanonicalRelatedObjects
            /\ fetched[p].status.relatedObjects = CanonicalRelatedObjects =>
                  co[p].status.relatedObjects = fetched[p].status.relatedObjects

(* C15 witness: the fetched record listed the same three objects in another
   order, and the record handed over lists them in the canonical one. *)
C15_Witness ==
    \E p \in Procs :
        /\ pc[p] = "update"
        /\ fetched[p].status.relatedObjects # CanonicalRelatedObjects
        /\ {fetched[p].status.relatedObjects[i] :
               i \in 1..Len(fetched[p].status.relatedObjects)}
             = {CanonicalRelatedObjects[i] : i \in 1..3}
        /\ co[p].status.relatedObjects = CanonicalRelatedObjects

(* No two conditions of list cs have the same type. *)
UniqueTypes(cs) ==
    \A i \in 1..Len(cs), j \in 1..Len(cs) : cs[i].type = cs[j].type => i = j

(* C16: the stored record, and every record a transition hands to the persist
   step, has at most one condition per type. *)
C16_ConditionTypesUnique ==
    /\ UniqueTypes(store.status.conditions)
    /\ \A p \in Procs : UniqueTypes(co[p].status.conditions)

(* C16 witness: an Available transition whose overrides named Available twice
   has persisted a record in which the last of them stands. *)
C16_Witness ==
    \E p \in Procs :
        /\ pc[p] = "done"
        /\ kind[p] = "Available"
        /\ result[p].status = "ok"
        /\ persists[p] = 1
        /\ Holds(StoredStatus.conditions, "Available", "False", "Initializing")
        /\ Len(StoredStatus.conditions) >= 4

(* C17, as stated: every transition that has returned has returned success or
   an error of the store's Get, Create or Update; none has aborted. *)
C17_TransitionsNeverAbort ==
    \A p \in Procs :
        pc[p] = "done" =>
            \/ result[p].status = "ok"
            \/ /\ result[p].status = "error"
               /\ result[p].origin \in {"get", "create", "update"}

(* C18, as stated: a transition whose Get, Create or Update failed with an
   error other than not-found has returned exactly that error. *)
C18_ErrorsVerbatim ==
    \A p \in Procs :
        (result[p].status = "error" /\ result[p].raw # "NotFound") =>
            result[p].err = result[p].raw

(* C18, amended: a transition whose Update failed has returned exactly the
   store's error; one whose Get or Create failed has returned a new error, the
   store's error text after "failed to get clusterOperator
   \"cloud-controller-manager\": " or "failed to create cluster operator: ";
   no transition calls Create or Update a second time. *)
C18_ErrorsPassedOn ==
    \A p \in Procs :
        /\ persists[p] <= 1
        /\ creates[p] <= 1
        /\ result[p].status = "error" =>
              /\ result[p].raw # "NotFound"
              /\ result[p].origin = "update" =>
                    (result[p].err = result[p].raw /\ persists[p] = 1)
              /\ result[p].origin = "get" =>
                    /\ result[p].err =
                           "failed to get clusterOperator \"cloud-controller-manager\": "
                           \o result[p].raw
                    /\ creates[p] = 0 /\ persists[p] = 0
              /\ result[p].origin = "create" =>
                    /\ result[p].err =
                           "failed to create cluster operator: " \o result[p].raw
                    /\ creates[p] = 1 /\ persists[p] = 0

(* C18 witness: one caller was returned the error of its Update as it was,
   another the wrapped error of its Get. *)
C18_Witness ==
    \E p \in Procs, q \in Procs :
        /\ pc[p] = "done"
        /\ result[p].status = "error"
        /\ result[p].origin = "update"
        /\ result[p].err = "Timeout"
        /\ pc[q] = "done"
        /\ result[q].status = "error"
        /\ result[q].origin = "get"
        /\ result[q].raw = "Timeout"
        /\ result[q].err # result[q].raw

(* Condition list cs without the conditions of type ty, the rest as they are
   and in their order. *)
Without(cs, ty) == SelectSeq(cs, LAMBDA c : c.type # ty)

(* C19: the record a successful removal persists is the stored one without the
   CloudControllerOwner condition, every other condition as it was and in its
   place; and the condition enters a stored record that lacks it only by the
   persist step of a transition whose overrides name it. *)
C19_RemovalOneWay ==
    [][/\ \A p \in Procs :
             (/\ kind[p] = "Removal" /\ pc[p] = "update"
              /\ pc'[p] = "done" /\ result'[p].status = "ok") =>
                 /\ FindStatusCondition(store'.status.conditions,
                                        "CloudControllerOwner") = 0
                 /\ store'.status.conditions
                        = Without(store.status.conditions, "CloudControllerOwner")
       /\ (/\ FindStatusCondition(store.status.conditions,
                                  "CloudControllerOwner") = 0
           /\ FindStatusCondition(store'.status.conditions,
                                  "CloudControllerOwner") # 0) =>
              \E p \in Procs :
                  /\ pc[p] = "update"
                  /\ pc'[p] = "done"
                  /\ kind[p] # "Removal"
                  /\ \E i \in 1..Len(ovr[p]) :
                        ovr[p][i].type = "CloudControllerOwner"]_vars

(* C19 witness: a removal has persisted the record of the earlier release
   without the CloudControllerOwner condition, its Available condition kept. *)
C19_Witness ==
    \E p \in Procs :
        /\ kind[p] = "Removal"
        /\ pc[p] = "done"
        /\ result[p].status = "ok"
        /\ persists[p] = 1
        /\ StoredStatus.conditions
               = Without(LegacyStatus.conditions, "CloudControllerOwner")
        /\ StoredStatus.conditions # <<>>
        /\ StoredStatus.conditions # LegacyStatus.conditions

(* C20: whatever the overrides, the record an Available transition hands to the
   persist step has the versions [{operator, release version}], the record of
   a Degraded or Progressing transition has the fetched versions, and either
   has the three related objects: the overrides decide conditions only. *)
C20_OverridesLeaveVersions ==
    \A p \in Procs :
        pc[p] = "update" =>
            /\ kind[p] = "Available" =>
                  co[p].status.versions
                      = <<[name |-> "operator", version |-> ReleaseVersion]>>
            /\ kind[p] \in {"Degraded", "Progressing"} =>
                  co[p].status.versions = fetched[p].status.versions
            /\ co[p].status.relatedObjects = CanonicalRelatedObjects
            /\ \A i \in 1..Len(ovr[p]) :
                  \E j \in 1..Len(co[p].status.conditions) :
                      co[p].status.conditions[j].type = ovr[p][i].type

(* C20 witness: an Available transition whose overrides set Available=False
   has persisted the release version in place of the earlier one, and the
   stored record shows it with Available not True. *)
C20_Witness ==
    \E p \in Procs :
        /\ kind[p] = "Available"
        /\ pc[p] = "done"
        /\ result[p].status = "ok"
        /\ persists[p] = 1
        /\ \A q \in Procs \ {p} : pc[q] = "idle"
        /\ StoredStatus.versions
               = <<[name |-> "operator", version |-> ReleaseVersion]>>
        /\ StoredStatus.versions # LegacyStatus.versions
        /\ Holds(StoredStatus.conditions, "Available", "False", "Initializing")
        /\ Holds(StoredStatus.conditions, "Degraded", "False", "AsExpected")

====
